---- MODULE Spec2Model ----
(***************************************************************************)
(* Model of MemosService (src/src/services/memos-service.ts):              *)
(*   fetchAllMemos    - cursor-paged fetch, capped by syncLimit, sorted    *)
(*   downloadResource - best-effort binary download, null on any failure   *)
(* Strings the code inspects (URLs, resource names, file names) are        *)
(* sequences of one-character strings; opaque strings are TLA+ strings.    *)
(***************************************************************************)
EXTENDS Integers, Sequences, FiniteSets, TLC

VARIABLES apiUrl, accessToken, syncLimit, calls, dl, dlPrev

vars == <<apiUrl, accessToken, syncLimit, calls, dl, dlPrev>>

(* ---------------------------- bounds ---------------------------------- *)
MaxSyncLimit == 3
MaxPageLen == 2

(* ------------------------ program constants --------------------------- *)
MaxPageSize == 100
HttpOk == 200

(* the scenario of the specification: pages of 60, 60 and 5 items under a  *)
(* limit of 100                                                            *)
ScenarioSizes == <<60, 60, 5>>
ScenarioLimit == ScenarioSizes[1] + 40
(* a limit above the page size cap, met by the three pages together        *)
LargeLimit == ScenarioSizes[1] + ScenarioSizes[2] + ScenarioSizes[3]

Calls == {1, 2}

Min(a, b) == IF a <= b THEN a ELSE b

(* ------------------------------ strings ------------------------------- *)
ApiV1 == <<"/", "a", "p", "i", "/", "v", "1">>
MemosPath == <<"/", "m", "e", "m", "o", "s">>
FilePath == <<"/", "f", "i", "l", "e", "/", "a", "t", "t", "a", "c", "h",
              "m", "e", "n", "t", "s", "/">>

\* String.prototype.includes
Includes(s, sub) ==
    \E i \in 1..(Len(s) - Len(sub) + 1) : SubSeq(s, i, i + Len(sub) - 1) = sub

\* String.prototype.replace with a string pattern: the first occurrence only
Replace(s, sub, rep) ==
    IF ~Includes(s, sub) THEN s
    ELSE LET i == CHOOSE k \in 1..(Len(s) - Len(sub) + 1) :
                      /\ SubSeq(s, k, k + Len(sub) - 1) = sub
                      /\ \A j \in 1..(k - 1) : SubSeq(s, j, j + Len(sub) - 1) # sub
         IN SubSeq(s, 1, i - 1) \o rep \o SubSeq(s, i + Len(sub), Len(s))

(* the configurations explored *)
ApiUrls == { <<"h">> \o ApiV1,
             <<"h">> \o ApiV1 \o <<"/">>,
             <<"h">>,
             <<"h", "/", "a", "p", "i", "/", "v", "2">> }
AccessTokens == {"secret"}
SyncLimits == (1..MaxSyncLimit) \cup {ScenarioLimit, LargeLimit}

(* ------------------------------- memos -------------------------------- *)
CreateTimes == {"2024-01-01T00:00:00Z", "2024-01-01T08:00:00+08:00",
                "2024-01-02T00:00:00Z"}

\* new Date(createTime).getTime(), counted in seconds since the epoch (the
\* timestamps are whole seconds; the millisecond values exceed 32 bits)
DateGetTime(ct) ==
    CASE ct = "2024-01-01T00:00:00Z"      -> 1704067200
      [] ct = "2024-01-01T08:00:00+08:00" -> 1704067200
      [] ct = "2024-01-02T00:00:00Z"      -> 1704153600

\* the comparator handed to Array.prototype.sort
CompareSwapped(a, b) == DateGetTime(a.createTime) - DateGetTime(b.createTime)
Compare(a, b) == DateGetTime(b.createTime) - DateGetTime(a.createTime)

RECURSIVE SortTiesReversed(_)
SortTiesReversed(s) ==
    IF s = <<>> THEN <<>>
    ELSE LET Leading(m) == \A j \in 1..Len(s) : Compare(m, s[j]) <= 0
             Behind(m) == ~Leading(m)
             tier == SelectSeq(s, Leading)
         IN [i \in 1..Len(tier) |-> tier[Len(tier) + 1 - i]]
                \o SortTiesReversed(SelectSeq(s, Behind))

\* Array.prototype.sort with that comparator. The sort is stable: the
\* elements that compare before or equal to every other come first, in the
\* order they had, followed by the rest sorted the same way.
RECURSIVE Sort(_)
Sort(s) ==
    IF s = <<>> THEN <<>>
    ELSE LET Leading(m) == \A j \in 1..Len(s) : Compare(m, s[j]) <= 0
             Behind(m) == ~Leading(m)
         IN SelectSeq(s, Leading) \o Sort(SelectSeq(s, Behind))

\* Array.prototype.slice(0, n)
SliceAll(s, n) == s
Slice(s, n) == SubSeq(s, 1, Min(Len(s), n))

(* ------------------------------ errors -------------------------------- *)
Undefined == "<undefined>"
Truthy(tok) == tok \notin {Undefined, ""}

Err(type, message, status, text, url) ==
    [type |-> type, message |-> message, status |-> status, text |-> text,
     url |-> url]
NoError == Err("none", "", 0, "", <<>>)
\* line 33
ConfigError == Err("Error", "bad-api-url", 0, "", <<>>)
\* line 62
HttpError(status, text) == Err("Error", "HTTP", status, text, <<>>)
\* line 69
FormatError == Err("Error", "invalid-format", 0, "", <<>>)
\* line 99
NetworkError(url) == Err("Error", "network", 0, "", url)

(* --------------------------- the transport ---------------------------- *)
NoJson == [shape |-> "null", memos |-> <<>>, nextPageToken |-> Undefined]

Thrown(type, message) ==
    [kind |-> "throw", error |-> Err(type, message, 0, "", <<>>),
     status |-> 0, text |-> "", json |-> NoJson]
Response(status, text, json) ==
    [kind |-> "response", error |-> NoError,
     status |-> status, text |-> text, json |-> json]
ListJson(memos, tok) ==
    [shape |-> "list", memos |-> memos, nextPageToken |-> tok]

MkMemos(reqNo, cts) ==
    [i \in 1..Len(cts) |-> [name |-> <<reqNo, i>>, createTime |-> cts[i]]]

PageTokens == {Undefined, "", "t1", "t2"}

TimeLists(maxLen) ==
    UNION {[1..n -> CreateTimes] : n \in 0..maxLen}

\* what requestUrl can do with request number reqNo
ThrowOutcomes ==
    {Thrown(t, m) : t \in {"TypeError", "Error"},
                    m \in {"Failed to fetch", "Request failed"}}
BadStatusOutcomes(reqNo) ==
    {Response(s, t, j) : s \in {201, 404}, t \in {"", "not found"},
        j \in {NoJson,
               ListJson(MkMemos(reqNo, <<"2024-01-02T00:00:00Z">>), "t1")}}
\* no body, or a body whose memos field is not an array (here an array-like
\* object holding one item)
MalformedOutcomes(reqNo) ==
    {Response(HttpOk, "ok", j) :
        j \in {NoJson,
               [shape |-> "object",
                memos |-> MkMemos(reqNo, <<"2024-01-02T00:00:00Z">>),
                nextPageToken |-> "t1"]}}
PageOutcomes(reqNo, maxLen) ==
    {Response(HttpOk, "ok", ListJson(MkMemos(reqNo, cts), tok)) :
        cts \in TimeLists(maxLen), tok \in PageTokens}

ScenarioTimes == <<"2024-01-01T00:00:00Z", "2024-01-02T00:00:00Z",
                   "2024-01-01T08:00:00+08:00">>
ScenarioPage(reqNo) ==
    Response(HttpOk, "ok",
        ListJson(MkMemos(reqNo,
                     [i \in 1..ScenarioSizes[reqNo] |-> ScenarioTimes[(i % 3) + 1]]),
                 IF reqNo < Len(ScenarioSizes) THEN "t1" ELSE Undefined))

Outcomes(limit, reqNo, maxLen) ==
    IF limit \in {ScenarioLimit, LargeLimit}
    THEN IF reqNo <= Len(ScenarioSizes) THEN {ScenarioPage(reqNo)} ELSE {}
    ELSE ThrowOutcomes \cup BadStatusOutcomes(reqNo) \cup MalformedOutcomes(reqNo)
            \cup PageOutcomes(reqNo, maxLen)

(* --------------------------- fetchAllMemos ---------------------------- *)
IdleCall ==
    [pc |-> "idle", allMemos |-> <<>>, pageToken |-> Undefined, pageSize |-> 0,
     requests |-> <<>>, responses |-> <<>>, result |-> <<>>, error |-> NoError]

\* lines 46-48: the pageToken parameter is set only for a truthy cursor
RequestTokenNone(cs) == Undefined
RequestToken(cs) == IF Truthy(cs.pageToken) THEN cs.pageToken ELSE Undefined

\* lines 36-59: one pass of the loop up to the await
IssueRequest(cs, url, token) ==
    [cs EXCEPT !.pc = "awaiting",
               !.requests = Append(@,
                   [url |-> url \o MemosPath, state |-> "NORMAL",
                    pageSize |-> cs.pageSize,
                    pageToken |-> RequestToken(cs),
                    authorization |-> token])]

\* lines 96-102: the catch block
CatchPartial(cs, err, url) ==
    [cs EXCEPT !.pc = "returned", !.result = Sort(cs.allMemos)]
CatchAnyTypeError(cs, err, url) ==
    [cs EXCEPT !.pc = "failed",
               !.error = IF err.type = "TypeError"
                         THEN NetworkError(url) ELSE err]
Catch(cs, err, url) ==
    [cs EXCEPT !.pc = "failed",
               !.error = IF err.type = "TypeError" /\ err.message = "Failed to fetch"
                         THEN NetworkError(url) ELSE err]

\* lines 92-95: sort works in place and returns the array
Return(cs) ==
    [cs EXCEPT !.pc = "returned", !.allMemos = Sort(@), !.result = Sort(cs.allMemos)]

\* line 32
ValidApiUrlAlways(url) == TRUE
ValidApiUrl(url) == Includes(url, ApiV1)

\* line 29
PageSizeUncapped(limit) == limit
PageSize(limit) == Min(MaxPageSize, limit)

\* lines 22-59: from the call to the first await
Begin(url, token, limit) ==
    LET cs == [IdleCall EXCEPT !.pageSize = PageSize(limit)]
    IN IF ~ValidApiUrl(url) THEN Catch(cs, ConfigError, url)
       ELSE IssueRequest(cs, url, token)

\* lines 85-88: the exit test of the loop
ExitLoopNoLimit(cs, limit) == ~Truthy(cs.pageToken)
ExitLoopNoCursor(cs, limit) == Len(cs.allMemos) >= limit
ExitLoop(cs, limit) == Len(cs.allMemos) >= limit \/ ~Truthy(cs.pageToken)

\* line 80
RemainingCountShort(cs, limit) == limit - Len(cs.allMemos) - 1
RemainingCount(cs, limit) == limit - Len(cs.allMemos)

\* line 61
FailedStatusErrorsOnly(status) == status >= 400
FailedStatus(status) == status # HttpOk

\* line 68
WellFormedNonNull(json) == json.shape # "null"
WellFormed(json) == json.shape = "list"

\* line 75
EmptyPageNever(memos) == FALSE
EmptyPage(memos) == Len(memos) = 0

\* lines 61-90: from the resumption after the await to the next await, the
\* return or the throw
Resume(cs0, out, url, token, limit) ==
    LET cs == [cs0 EXCEPT !.responses = Append(@, out)]
    IN IF out.kind = "throw" THEN Catch(cs, out.error, url)
       ELSE IF FailedStatus(out.status)
            THEN Catch(cs, HttpError(out.status, out.text), url)
       ELSE IF ~WellFormed(out.json) THEN Catch(cs, FormatError, url)
       ELSE LET memos == out.json.memos
                cs1 == [cs EXCEPT !.pageToken = out.json.nextPageToken]
            IN IF EmptyPage(memos) THEN Return(cs1)
               ELSE LET remainingCount == RemainingCount(cs1, limit)
                        neededCount == Min(Len(memos), remainingCount)
                        cs2 == [cs1 EXCEPT
                                  !.allMemos = @ \o Slice(memos, neededCount)]
                    IN IF ExitLoop(cs2, limit) THEN Return(cs2)
                       ELSE IssueRequest(cs2, url, token)

(* ------------------------------ actions ------------------------------- *)
FetchAllMemos(c) ==
    /\ calls[c].pc \in {"idle", "returned", "failed"}
    /\ calls' = [calls EXCEPT ![c] = Begin(apiUrl, accessToken, syncLimit)]
    /\ UNCHANGED <<apiUrl, accessToken, syncLimit, dl, dlPrev>>

\* lines 27-28: allMemos and pageToken are locals of the invocation, so a
\* resumed invocation finds its own
FrameShared(cl, c) ==
    [cl[c] EXCEPT !.allMemos = cl[1].allMemos, !.pageToken = cl[1].pageToken]
Frame(cl, c) == cl[c]

\* the await of line 53 settles with one of the outcomes outs
Settle(c, outs) ==
    /\ calls[c].pc = "awaiting"
    /\ \E out \in outs :
          calls' = [calls EXCEPT
                      ![c] = Resume(Frame(calls, c), out, apiUrl, accessToken,
                                    syncLimit)]
    /\ UNCHANGED <<apiUrl, accessToken, syncLimit, dl, dlPrev>>

RequestUrlSettles(c, maxLen) ==
    Settle(c, Outcomes(syncLimit, Len(calls[c].requests), maxLen))

\* two invocations at once: the server hands every request items of its own
\* (request reqNo of call c gets the items numbered 10 * c + reqNo) and every
\* call cursors of its own
ConcToken(c) == IF c = 1 THEN "t1" ELSE "t2"
ConcOutcomes(c, reqNo) ==
    {Thrown("TypeError", "Failed to fetch"), Response(404, "not found", NoJson)}
    \cup
    {Response(HttpOk, "ok", ListJson(MkMemos(10 * c + reqNo, cts), tok)) :
        cts \in {<<>>, <<"2024-01-01T00:00:00Z">>, <<"2024-01-02T00:00:00Z">>},
        tok \in {Undefined, ConcToken(c)}}

RequestUrlSettlesConcurrent(c) ==
    Settle(c, ConcOutcomes(c, Len(calls[c].requests)))

(* -------------------------- downloadResource -------------------------- *)
ResourceNames == { <<"a", "/", "4", "2">>,
                   <<"a", "/", "s", "/", "7">>,
                   <<"7">>,
                   <<"a", "/", "7", "/">>,
                   <<"a", "/", "/", "7">>,
                   <<"/">>,
                   <<>> }
\* "\uD800" stands for a lone surrogate, which encodeURIComponent rejects
FileNames == { <<"p", ".", "g">>, <<"p", " ", "g">>, <<"a", "/", "b">>,
               <<"p", "\\uD800">> }
Resources == [name : ResourceNames, filename : FileNames]

\* String.prototype.split with a one-character separator
RECURSIVE Split(_, _)
Split(s, sep) ==
    IF \A i \in 1..Len(s) : s[i] # sep THEN <<s>>
    ELSE LET i == CHOOSE k \in 1..Len(s) :
                      s[k] = sep /\ \A j \in 1..(k - 1) : s[j] # sep
         IN <<SubSeq(s, 1, i - 1)>> \o Split(SubSeq(s, i + 1, Len(s)), sep)

\* Array.prototype.pop on a non-empty array: the last element
Pop(a) == a[Len(a)]

\* line 109: the empty string is falsy, so || falls back to the whole name
AttachmentIdNoFallback(name) == Pop(Split(name, "/"))
AttachmentIdFirst(name) ==
    LET first == Split(name, "/")[1] IN IF first # <<>> THEN first ELSE name
AttachmentId(name) ==
    LET last == Pop(Split(name, "/")) IN IF last # <<>> THEN last ELSE name

\* encodeURIComponent on one character
EncodeChar(ch) ==
    CASE ch = " " -> <<"%", "2", "0">>
      [] ch = "/" -> <<"%", "2", "F">>
      [] OTHER -> <<ch>>

RECURSIVE EncodeURIComponent(_)
EncodeURIComponent(s) ==
    IF s = <<>> THEN <<>>
    ELSE EncodeChar(s[1]) \o EncodeURIComponent(SubSeq(s, 2, Len(s)))

\* encodeURIComponent throws URIError on a lone surrogate
EncodeThrows(s) == \E i \in 1..Len(s) : s[i] = "\\uD800"

\* line 110
ResourceUrl(url, resource) ==
    Replace(url, ApiV1, <<>>) \o FilePath \o AttachmentId(resource.name)
        \o <<"/">> \o EncodeURIComponent(resource.filename)

NoBuffer == [present |-> FALSE, bytes |-> <<>>]
Buffer(bytes) == [present |-> TRUE, bytes |-> bytes]
Null == [isNull |-> TRUE, bytes |-> <<>>]
Bytes(b) == [isNull |-> FALSE, bytes |-> b]

\* the property arrayBuffer of a response: missing, undefined, or a buffer
ArrayBuffers ==
    {[has |-> FALSE, value |-> NoBuffer], [has |-> TRUE, value |-> NoBuffer],
     [has |-> TRUE, value |-> Buffer(<<>>)],
     [has |-> TRUE, value |-> Buffer(<<1, 2>>)]}

NoDownloadOutcome ==
    [kind |-> "none", error |-> NoError, status |-> 0, text |-> "",
     arrayBuffer |-> [has |-> FALSE, value |-> NoBuffer]]
DownloadOutcomes ==
    {[kind |-> "throw", error |-> Err(t, "Failed to fetch", 0, "", <<>>),
      status |-> 0, text |-> "",
      arrayBuffer |-> [has |-> FALSE, value |-> NoBuffer]] :
        t \in {"TypeError", "Error"}}
    \cup
    {[kind |-> "response", error |-> NoError, status |-> s, text |-> "body",
      arrayBuffer |-> ab] : s \in {HttpOk, 201, 404}, ab \in ArrayBuffers}

NoRequest == [url |-> <<>>, authorization |-> "", accept |-> "", method |-> ""]

IdleDownload ==
    [pc |-> "idle", resource |-> [name |-> <<>>, filename |-> <<>>],
     sent |-> FALSE, request |-> NoRequest, response |-> NoDownloadOutcome,
     threw |-> FALSE, value |-> Null]

\* lines 138-141: the catch block
DownloadCatchRethrow(d) == [d EXCEPT !.pc = "done", !.threw = TRUE]
DownloadCatch(d) == [d EXCEPT !.pc = "done", !.value = Null]

\* lines 106-121: from the call to the await
BeginDownload(url, token, resource) ==
    LET d == [IdleDownload EXCEPT !.resource = resource]
    IN IF EncodeThrows(resource.filename) THEN DownloadCatch(d)
       ELSE [d EXCEPT !.pc = "awaiting", !.sent = TRUE,
                      !.request = [url |-> ResourceUrl(url, resource),
                                   authorization |-> token,
                                   accept |-> "*/*", method |-> "GET"]]

\* line 130
HasPayloadNonEmpty(ab) == ab.has /\ ab.value.present /\ ab.value.bytes # <<>>
HasPayload(ab) == ab.has /\ ab.value.present

\* line 123
DownloadFailedStatusErrorsOnly(status) == status >= 400
DownloadFailedStatus(status) == status # HttpOk

\* lines 123-141: from the resumption after the await to the return
FinishDownload(d0, out) ==
    LET d == [d0 EXCEPT !.response = out]
    IN IF out.kind = "throw" THEN DownloadCatch(d)
       ELSE IF DownloadFailedStatus(out.status)
            THEN [d EXCEPT !.pc = "done", !.value = Null]
       ELSE IF HasPayload(out.arrayBuffer)
            THEN [d EXCEPT !.pc = "done",
                           !.value = Bytes(out.arrayBuffer.value.bytes)]
       ELSE [d EXCEPT !.pc = "done", !.value = Null]

\* what the download before the current one resolved to
Summary(d) ==
    IF d.pc # "done" THEN "none"
    ELSE IF d.threw THEN "threw"
    ELSE IF d.value.isNull THEN "null" ELSE "bytes"

DownloadResource ==
    /\ dl.pc \in {"idle", "done"}
    /\ \E resource \in Resources :
          dl' = BeginDownload(apiUrl, accessToken, resource)
    /\ dlPrev' = Summary(dl)
    /\ UNCHANGED <<apiUrl, accessToken, syncLimit, calls>>

DownloadSettles ==
    /\ dl.pc = "awaiting"
    /\ \E out \in DownloadOutcomes : dl' = FinishDownload(dl, out)
    /\ UNCHANGED <<apiUrl, accessToken, syncLimit, calls, dlPrev>>

(* --------------------------- specifications --------------------------- *)
Init ==
    /\ apiUrl \in ApiUrls
    /\ accessToken \in AccessTokens
    /\ syncLimit \in SyncLimits
    /\ calls = [c \in Calls |-> IdleCall]
    /\ dl = IdleDownload
    /\ dlPrev = "none"

\* one fetchAllMemos call at a time
Next ==
    \/ FetchAllMemos(1)
    \/ RequestUrlSettles(1, MaxPageLen)

Spec == Init /\ [][Next]_vars

\* two fetchAllMemos calls whose requests and responses interleave
InitConcurrent ==
    /\ Init
    /\ syncLimit \in 1..MaxSyncLimit

NextConcurrent ==
    \E c \in Calls :
        \/ FetchAllMemos(c)
        \/ RequestUrlSettlesConcurrent(c)

SpecConcurrent == InitConcurrent /\ [][NextConcurrent]_vars

\* one call against that server, which answers every request
NextLive ==
    \/ FetchAllMemos(1)
    \/ RequestUrlSettlesConcurrent(1)

SpecLive ==
    InitConcurrent /\ [][NextLive]_vars /\ WF_vars(RequestUrlSettlesConcurrent(1))

\* downloads only
NextDownload ==
    \/ DownloadResource
    \/ DownloadSettles

SpecDownload == Init /\ [][NextDownload]_vars

(* ------------------------------ claims -------------------------------- *)
IsFailure(out) ==
    out.kind = "throw" \/ out.status # HttpOk \/ out.json.shape # "list"
IsPage(out) == ~IsFailure(out)

RECURSIVE Flatten(_)
\* the items of the pages received, in fetch order
Flatten(rs) ==
    IF rs = <<>> THEN <<>>
    ELSE (IF IsPage(rs[1]) THEN rs[1].json.memos ELSE <<>>)
            \o Flatten(SubSeq(rs, 2, Len(rs)))

Count(s, x) == Cardinality({i \in 1..Len(s) : s[i] = x})
SameItems(a, b) ==
    /\ Len(a) = Len(b)
    /\ \A i \in 1..Len(a) : Count(a, a[i]) = Count(b, a[i])

Last(s) == s[Len(s)]
Front(s) == SubSeq(s, 1, Len(s) - 1)
Time(m) == DateGetTime(m.createTime)

\* C1: a fetchAllMemos call that returns, returns at most syncLimit items
C1_AtMostMaxCount ==
    \A c \in Calls :
        calls[c].pc = "returned" => Len(calls[c].result) <= syncLimit

\* a call returned exactly syncLimit items although the server sent more
C1_Witness ==
    /\ calls[1].pc = "returned"
    /\ Len(Flatten(calls[1].responses)) > syncLimit
    /\ Len(calls[1].result) = syncLimit

\* C2: no page request is outstanding or issued once the accumulated count
\* has reached syncLimit, whatever cursor the last page carried; with pages of
\* 60, 60, 5 and a limit of 100 the call makes 2 requests and returns 100 items
C2_StopAtLimit ==
    \A c \in Calls :
        /\ calls[c].pc = "awaiting" => Len(calls[c].allMemos) < syncLimit
        /\ calls[c].pc = "returned" =>
              Len(calls[c].requests) = Len(calls[c].responses)
        /\ (syncLimit = ScenarioLimit /\ calls[c].pc = "returned") =>
              /\ Len(calls[c].requests) = 2
              /\ Len(calls[c].result) = 100

\* the scenario ran: the second page carried a cursor and the call returned
C2_Witness ==
    /\ syncLimit = ScenarioLimit
    /\ calls[1].pc = "returned"
    /\ Len(calls[1].responses[1].json.memos) = 60
    /\ Len(Last(calls[1].responses).json.memos) = 60
    /\ Truthy(Last(calls[1].responses).json.nextPageToken)

\* C3: a page with zero items ends the call successfully with the items of
\* the earlier pages and without another request, cursor or not
C3_EmptyPageStops ==
    \A c \in Calls :
        (/\ calls[c].responses # <<>>
         /\ IsPage(Last(calls[c].responses))
         /\ Last(calls[c].responses).json.memos = <<>>)
        => /\ calls[c].pc = "returned"
           /\ calls[c].error = NoError
           /\ Len(calls[c].requests) = Len(calls[c].responses)
           /\ SameItems(calls[c].result, Flatten(Front(calls[c].responses)))

\* an empty page that carried a cursor ended a call that had items already
C3_Witness ==
    /\ calls[1].pc = "returned"
    /\ Len(calls[1].responses) >= 2
    /\ Last(calls[1].responses).json.memos = <<>>
    /\ Truthy(Last(calls[1].responses).json.nextPageToken)
    /\ calls[1].result # <<>>

\* C4: a page without nextPageToken ends the call, whatever budget remains,
\* with the items accumulated up to and including that page
C4_NoCursorStops ==
    \A c \in Calls :
        (/\ calls[c].responses # <<>>
         /\ IsPage(Last(calls[c].responses))
         /\ Last(calls[c].responses).json.nextPageToken = Undefined)
        => /\ calls[c].pc = "returned"
           /\ Len(calls[c].requests) = Len(calls[c].responses)
           /\ SameItems(calls[c].result,
                        Slice(Flatten(calls[c].responses), syncLimit))

\* a non-empty page without cursor ended a call that had budget left
C4_Witness ==
    /\ calls[1].pc = "returned"
    /\ Len(calls[1].responses) >= 2
    /\ Last(calls[1].responses).json.nextPageToken = Undefined
    /\ Last(calls[1].responses).json.memos # <<>>
    /\ Len(calls[1].result) < syncLimit

\* C5: the returned sequence is sorted by createTime, latest first
C5_SortedDescending ==
    \A c \in Calls :
        calls[c].pc = "returned" =>
            \A i, j \in 1..Len(calls[c].result) :
                i < j => Time(calls[c].result[i]) >= Time(calls[c].result[j])

\* a call returned items that it had fetched in another order
C5_Witness ==
    /\ calls[1].pc = "returned"
    /\ LET fetched == Slice(Flatten(calls[1].responses), syncLimit)
       IN \E i, j \in 1..Len(fetched) : i < j /\ Time(fetched[i]) < Time(fetched[j])

\* C6: the accumulator is the first min(syncLimit, total) items of the pages
\* received, in fetch order, and the result holds exactly these items
C6_LeadingItems ==
    \A c \in Calls :
        /\ calls[c].pc = "awaiting" =>
              calls[c].allMemos = Slice(Flatten(calls[c].responses), syncLimit)
        /\ calls[c].pc = "returned" =>
              SameItems(calls[c].result,
                        Slice(Flatten(calls[c].responses), syncLimit))

\* the last of several pages was cut: part of it was kept, part dropped
C6_Witness ==
    /\ calls[1].pc = "returned"
    /\ Len(calls[1].responses) >= 2
    /\ Len(Flatten(Front(calls[1].responses))) < syncLimit
    /\ Len(Flatten(calls[1].responses)) > syncLimit
    /\ Len(calls[1].result) = syncLimit

\* C7: with an apiUrl that does not contain /api/v1 a call fails with the
\* configuration error and makes no request
C7_BadUrlNoRequest ==
    \A c \in Calls :
        (~Includes(apiUrl, ApiV1) /\ calls[c].pc # "idle")
        => /\ calls[c].pc = "failed"
           /\ calls[c].error = ConfigError
           /\ calls[c].requests = <<>>

\* a call was made with an apiUrl of another API version
C7_Witness ==
    /\ apiUrl = <<"h", "/", "a", "p", "i", "/", "v", "2">>
    /\ calls[1].pc = "failed"

\* C8: a call in which some page request failed ends in an error and returns
\* nothing, also when earlier pages had been accumulated
C8_FailsAtomically ==
    \A c \in Calls :
        (\E i \in 1..Len(calls[c].responses) : IsFailure(calls[c].responses[i]))
        => /\ calls[c].pc = "failed"
           /\ calls[c].error # NoError
           /\ calls[c].result = <<>>

\* a later page failed after items had been accumulated
C8_Witness ==
    /\ calls[1].pc = "failed"
    /\ Len(calls[1].responses) >= 2
    /\ calls[1].allMemos # <<>>

\* C9: downloadResource never throws; it resolves to the bytes of the
\* response when the status is 200 and the payload is present, and to null
\* otherwise, whatever the earlier download did
C9_DownloadNeverThrows ==
    dl.pc = "done" =>
        LET ok == /\ dl.sent
                  /\ dl.response.kind = "response"
                  /\ dl.response.status = HttpOk
                  /\ dl.response.arrayBuffer.has
                  /\ dl.response.arrayBuffer.value.present
        IN /\ ~dl.threw
           /\ ok => dl.value = Bytes(dl.response.arrayBuffer.value.bytes)
           /\ ~ok => dl.value = Null

\* a download delivered bytes right after a download that failed
C9_Witness ==
    /\ dl.pc = "done"
    /\ dlPrev = "null"
    /\ ~dl.value.isNull

\* the final '/'-delimited segment of a name
LastSegment(name) ==
    LET slashes == {i \in 1..Len(name) : name[i] = "/"}
    IN IF slashes = {} THEN name
       ELSE LET k == CHOOSE i \in slashes : \A j \in slashes : j <= i
            IN SubSeq(name, k + 1, Len(name))

UrlWithId(id) ==
    Replace(apiUrl, ApiV1, <<>>) \o FilePath \o id \o <<"/">>
        \o EncodeURIComponent(dl.resource.filename)

\* C10 as stated: the id in the download URL is the final segment of the
\* name, for every name
C10_Original ==
    dl.sent => dl.request.url = UrlWithId(LastSegment(dl.resource.name))

\* C10 as amended: the id in the download URL is the final segment of the
\* name when that segment is not empty, and the whole name when it is empty
C10_LastSegmentOrName ==
    dl.sent =>
        dl.request.url =
            UrlWithId(IF LastSegment(dl.resource.name) # <<>>
                      THEN LastSegment(dl.resource.name)
                      ELSE dl.resource.name)

\* a download was requested for a name that ends with '/'
C10_Witness ==
    /\ dl.sent
    /\ dl.resource.name = <<"a", "/", "7", "/">>

\* C11 as stated: every request asks for at most 100 items and at most the
\* budget that remains when it is issued
C11_Original ==
    \A c \in Calls :
        calls[c].pc = "awaiting" =>
            /\ Last(calls[c].requests).pageSize <= 100
            /\ Last(calls[c].requests).pageSize
                  <= syncLimit - Len(calls[c].allMemos)

\* C11 as amended: every request asks for at most 100 items and at most
\* syncLimit items, the same number on every page; on the first page this is
\* at most the remaining budget
C11_PageSizeCapped ==
    \A c \in Calls :
        \A k \in 1..Len(calls[c].requests) :
            /\ calls[c].requests[k].pageSize <= 100
            /\ calls[c].requests[k].pageSize <= syncLimit
            /\ calls[c].requests[k].pageSize = calls[c].requests[1].pageSize
            /\ (syncLimit <= 100 \/ calls[c].requests[k].pageSize = 100)
            /\ (syncLimit > 100 \/ calls[c].requests[k].pageSize = syncLimit)

\* under a limit above 100 a later request asked for more than the budget left
C11_Witness ==
    /\ syncLimit > 100
    /\ calls[1].pc = "awaiting"
    /\ Len(calls[1].requests) >= 2
    /\ Last(calls[1].requests).pageSize > syncLimit - Len(calls[1].allMemos)

\* C12: the first request of a call carries no pageToken, request n+1 exists
\* only once response n has arrived and carries the nextPageToken of response
\* n, and a call never has more than one request in flight
C12_StrictlySerial ==
    \A c \in Calls :
        LET rq == calls[c].requests
            rs == calls[c].responses
        IN /\ Len(rq) - Len(rs) = (IF calls[c].pc = "awaiting" THEN 1 ELSE 0)
           /\ rq # <<>> => rq[1].pageToken = Undefined
           /\ \A n \in 1..(Len(rq) - 1) :
                 /\ IsPage(rs[n])
                 /\ rq[n + 1].pageToken = rs[n].json.nextPageToken

\* a third request went out carrying the cursor of the second response, which
\* differs from the cursor of the first
C12_Witness ==
    /\ Len(calls[1].requests) = 3
    /\ calls[1].responses[1].json.nextPageToken = "t1"
    /\ calls[1].responses[2].json.nextPageToken = "t2"
    /\ calls[1].requests[3].pageToken = "t2"

\* C14: a response with a status other than 200 fails the call with an error
\* that carries this status and the response text, whatever the body holds,
\* and the call makes no further request
C14_BadStatusFails ==
    \A c \in Calls :
        (/\ calls[c].responses # <<>>
         /\ Last(calls[c].responses).kind = "response"
         /\ Last(calls[c].responses).status # 200)
        => /\ calls[c].pc = "failed"
           /\ calls[c].error.type = "Error"
           /\ calls[c].error.message = "HTTP"
           /\ calls[c].error.status = Last(calls[c].responses).status
           /\ calls[c].error.text = Last(calls[c].responses).text
           /\ Len(calls[c].requests) = Len(calls[c].responses)

\* a later page came back with status 201 and a well-formed memos list
C14_Witness ==
    /\ calls[1].pc = "failed"
    /\ Len(calls[1].responses) >= 2
    /\ Last(calls[1].responses).status = 201
    /\ Last(calls[1].responses).json.shape = "list"
    /\ Last(calls[1].responses).text = "not found"

\* C15: a response with status 200 whose body is absent or whose memos field
\* is not a sequence fails the call with the malformed-response error; nothing
\* of that page is appended and its cursor is not taken over or used
C15_MalformedFails ==
    \A c \in Calls :
        (/\ calls[c].responses # <<>>
         /\ Last(calls[c].responses).kind = "response"
         /\ Last(calls[c].responses).status = 200
         /\ Last(calls[c].responses).json.shape # "list")
        => /\ calls[c].pc = "failed"
           /\ calls[c].error = FormatError
           /\ calls[c].allMemos = Flatten(Front(calls[c].responses))
           /\ calls[c].pageToken = Last(calls[c].requests).pageToken
           /\ Len(calls[c].requests) = Len(calls[c].responses)

\* a later page had a memos field that is not an array, with an item and a
\* cursor in it
C15_Witness ==
    /\ calls[1].pc = "failed"
    /\ Len(calls[1].responses) >= 2
    /\ Last(calls[1].responses).status = 200
    /\ Last(calls[1].responses).json.shape = "object"
    /\ Last(calls[1].responses).json.memos # <<>>
    /\ Last(calls[1].requests).pageToken = "t2"

\* the error raised inside a failed call, before the catch block
Raised(cs) ==
    IF cs.responses = <<>> THEN ConfigError
    ELSE LET out == Last(cs.responses)
         IN IF out.kind = "throw" THEN out.error
            ELSE IF out.status # 200
                 THEN [type |-> "Error", message |-> "HTTP",
                       status |-> out.status, text |-> out.text, url |-> <<>>]
            ELSE FormatError

\* C16: the caller of a failed call gets the network-unavailable error naming
\* apiUrl when the transport raised the TypeError 'Failed to fetch', and the
\* raised error itself in every other case
C16_OnlyUnreachableRewrapped ==
    \A c \in Calls :
        calls[c].pc = "failed" =>
            LET raised == Raised(calls[c])
            IN IF raised.type = "TypeError" /\ raised.message = "Failed to fetch"
               THEN /\ calls[c].error.message = "network"
                    /\ calls[c].error.type = "Error"
                    /\ calls[c].error.url = apiUrl
               ELSE calls[c].error = raised

\* a transport TypeError with another message reached the caller unchanged
C16_Witness ==
    /\ calls[1].pc = "failed"
    /\ calls[1].responses # <<>>
    /\ Last(calls[1].responses).kind = "throw"
    /\ calls[1].error.type = "TypeError"
    /\ calls[1].error.message = "Request failed"

RECURSIVE RunAlone(_)
\* the call that received the responses rs, run by itself
RunAlone(rs) ==
    IF rs = <<>> THEN Begin(apiUrl, accessToken, syncLimit)
    ELSE Resume(RunAlone(Front(rs)), Last(rs), apiUrl, accessToken, syncLimit)

Range(s) == {s[i] : i \in 1..Len(s)}
Cursors(rs) ==
    {rs[i].json.nextPageToken : i \in 1..Len(rs)} \ {Undefined, ""}

\* C13: each of two interleaved calls is in the state and gives the result
\* (items, order, requests, error) of the same call run alone on the responses
\* it received, and holds no item and sends no cursor of the other call; a
\* call started anew begins with an empty accumulator and no pageToken
C13_CallsIndependent ==
    \A c \in Calls :
        calls[c].pc # "idle" =>
            /\ calls[c] = RunAlone(calls[c].responses)
            /\ \A d \in Calls \ {c} :
                  /\ Range(calls[c].allMemos) \cap Range(Flatten(calls[d].responses)) = {}
                  /\ Range(calls[c].result) \cap Range(Flatten(calls[d].responses)) = {}
                  /\ \A k \in 1..Len(calls[c].requests) :
                        calls[c].requests[k].pageToken \notin Cursors(calls[d].responses)
            /\ calls[c].responses = <<>> =>
                  /\ calls[c].allMemos = <<>>
                  /\ \A k \in 1..Len(calls[c].requests) :
                        calls[c].requests[k].pageToken = Undefined

\* both calls are in the middle of their pagination, each with items and a
\* cursor of its own and a request in flight
C13_Witness ==
    /\ calls[1].pc = "awaiting"
    /\ calls[2].pc = "awaiting"
    /\ calls[1].allMemos # <<>>
    /\ calls[2].allMemos # <<>>
    /\ Last(calls[1].requests).pageToken = "t1"
    /\ Last(calls[2].requests).pageToken = "t2"

\* C17: a call makes at most syncLimit page requests, and when every request
\* is answered a call that is waiting ends, by returning or by failing
C17_TerminatesWithinLimit ==
    /\ [](\A c \in Calls : Len(calls[c].requests) <= syncLimit)
    /\ \A c \in Calls :
          (calls[c].pc = "awaiting") ~> (calls[c].pc \in {"returned", "failed"})

\* a call used up its syncLimit requests against a server that sent a cursor
\* with every page
C17_Witness ==
    /\ syncLimit >= 3
    /\ calls[1].pc = "returned"
    /\ Len(calls[1].requests) = syncLimit
    /\ \A k \in 1..Len(calls[1].responses) :
          Truthy(calls[1].responses[k].json.nextPageToken)

\* the place of item m in the order of fetching
FetchIndex(c, m) ==
    LET fetched == Slice(Flatten(calls[c].responses), syncLimit)
    IN CHOOSE i \in 1..Len(fetched) : fetched[i] = m

\* C18: returned items of equal createTime keep the order in which they were
\* fetched
C18_StableSort ==
    \A c \in Calls :
        calls[c].pc = "returned" =>
            \A i, j \in 1..Len(calls[c].result) :
                (i < j /\ Time(calls[c].result[i]) = Time(calls[c].result[j]))
                => FetchIndex(c, calls[c].result[i])
                      < FetchIndex(c, calls[c].result[j])

\* a call returned two items of one instant, written differently and fetched
\* in different pages, behind a later item that was fetched between them
C18_Witness ==
    /\ calls[1].pc = "returned"
    /\ Len(calls[1].responses) >= 2
    /\ Len(calls[1].result) = 3
    /\ Time(calls[1].result[2]) = Time(calls[1].result[3])
    /\ calls[1].result[2].createTime # calls[1].result[3].createTime
    /\ calls[1].result[2].name[1] < calls[1].result[3].name[1]
    /\ FetchIndex(1, calls[1].result[1]) = 2

====
